---- MODULE Spec2Model ----
(***************************************************************************)
(* TStateMachine<EnumClass, TemplateClass> of src/StateMachine.h.          *)
(*                                                                         *)
(* The machine is a record of the class's five members.  A public method   *)
(* is translated as the code segments between its entry, the callbacks it  *)
(* invokes through the owner, and its return: each segment is an operator  *)
(* from a machine to the machine it leaves and what it does next (return   *)
(* a status, or invoke a callback).  A callback body is the owner's code:  *)
(* while it runs it may call any public method of the same machine         *)
(* (re-entry) or return.  `stack` holds the suspended method calls, each   *)
(* with the callback it waits for.                                         *)
(***************************************************************************)
EXTENDS Integers, Sequences, FiniteSets, TLC

\* ------------------------------------------------------------------ bounds

\* RegisterState calls in one run.
MaxRegs == 2
\* Calls a callback makes back into the machine during one outermost call.
MaxReentry == 1
\* The depth of nested calls up to which a run of callbacks that always
\* re-enter is followed.
MaxNesting == 4

\* ------------------------------------------------------- the input domains

\* The values of EnumClass.
States == {"Idle", "Moving", "Attack"}

\* The null pointer-to-member.
NULL == "nullptr"

\* Member functions of the owner: CallbackOnEnter and CallbackOnExit,
\* void (TemplateClass::*)(), and CallbackOnUpdate, void (TemplateClass::*)(float).
VoidCallbacks == {"onEnterIdle", "onExitIdle", "onEnterMoving"}
FloatCallbacks == {"onTickIdle", "onTickMoving"}

\* The (callbackEntry, callbackTick, callbackExit) triples RegisterState is
\* called with: each a member of
\* (VoidCallbacks + null) x (FloatCallbacks + null) x (VoidCallbacks + null).
Bindings ==
    { <<NULL, NULL, NULL>>,
      <<"onEnterIdle", "onTickIdle", "onExitIdle">>,
      <<"onEnterMoving", "onTickMoving", NULL>> }

\* The values of DeltaTime.
DeltaTimes == {"0.5", "2.0"}

\* The empty argument list of a callback without parameters.
NoArg == <<>>

\* ------------------------------------------------------------------ status

EStateMachineStatus == {"NullOwner", "StateChanged", "StateUnchanged", "TickSuccess"}

\* ---------------------------------------------------------------- std::map

\* A std::map is a function on its key set.
EmptyMap == [k \in {} |-> NULL]

\* (mutant) operator[] that leaves the entry it inserts uninitialised: the
\* slot holds whatever pointer value was there.
Subscript_Uninitialised(map, key) ==
    [k \in DOMAIN map \cup {key} |-> IF k \in DOMAIN map THEN map[k] ELSE "onEnterIdle"]

\* map[key] as an lvalue: the map after operator[], which inserts a
\* value-initialised (null) entry for a key it does not hold.
Subscript(map, key) ==
    [k \in DOMAIN map \cup {key} |-> IF k \in DOMAIN map THEN map[k] ELSE NULL]

\* (mutant) map.insert({key, value}), which keeps the entry of a key the map
\* already holds.
Assign_InsertOnly(map, key, value) ==
    [k \in DOMAIN map \cup {key} |-> IF k \in DOMAIN map THEN map[k] ELSE value]

\* map[key] = value.
Assign(map, key, value) ==
    [k \in DOMAIN map \cup {key} |-> IF k = key THEN value ELSE map[k]]

\* ------------------------------------------------------------- the methods

\* (mutant) a constructor that leaves CurrentState value-initialised (the
\* first enumerator) in place of line 46.
Construct_DefaultState(owner, emptyState) ==
    [ Owner         |-> owner,
      CurrentState  |-> "Idle",
      StatesOnEnter |-> EmptyMap,
      StatesTick    |-> EmptyMap,
      StatesOnExit  |-> EmptyMap ]

\* TStateMachine(owner, emptyState); the three maps are default-constructed.
Construct(owner, emptyState) ==
    [ Owner         |-> owner,
      CurrentState  |-> emptyState,
      StatesOnEnter |-> EmptyMap,
      StatesTick    |-> EmptyMap,
      StatesOnExit  |-> EmptyMap ]

\* What a segment of a method does last.
Return(m, status) ==
    [m |-> m, act |-> "return", val |-> status, arg |-> NoArg, pc |-> "done"]
Invoke(m, callback, arg, pc) ==
    [m |-> m, act |-> "invoke", val |-> callback, arg |-> arg, pc |-> pc]

RegisterStateOp(m, state, callbackEntry, callbackTick, callbackExit) ==
    [m EXCEPT !.StatesOnEnter = Assign(@, state, callbackEntry),
              !.StatesTick    = Assign(@, state, callbackTick),
              !.StatesOnExit  = Assign(@, state, callbackExit)]

GetCurrentStateOp(m) == m.CurrentState

\* (mutant) ChangeState returning Tick's success status.
ChangeStateAfterEnter_TickStatus(m) == Return(m, "TickSuccess")

\* ChangeState, line 103: after the enter delegate returned.
ChangeStateAfterEnter(m) == Return(m, "StateChanged")

\* (mutant) the enter delegate looked up before CurrentState is set: the
\* enter of the state being left.
ChangeStateAfterExit_EnterOfOld(m, stateNext) ==
    LET m1 == [m EXCEPT !.StatesOnEnter = Subscript(@, m.CurrentState)]
        callbackEnter == m1.StatesOnEnter[m.CurrentState]
        m2 == [m1 EXCEPT !.CurrentState = stateNext]
    IN  IF callbackEnter # NULL
        THEN Invoke(m2, callbackEnter, NoArg, "enter")
        ELSE ChangeStateAfterEnter(m2)

\* (mutant) line 95 written as a comparison, CurrentState == stateNext: the
\* state is never set.
ChangeStateAfterExit_NoAssignment(m, stateNext) ==
    LET m2 == [m EXCEPT !.StatesOnEnter = Subscript(@, m.CurrentState)]
        callbackEnter == m2.StatesOnEnter[m.CurrentState]
    IN  IF callbackEnter # NULL
        THEN Invoke(m2, callbackEnter, NoArg, "enter")
        ELSE ChangeStateAfterEnter(m2)

\* (mutant) line 98 reading StatesOnExit where it should read StatesOnEnter.
ChangeStateAfterExit_WrongMap(m, stateNext) ==
    LET m1 == [m EXCEPT !.CurrentState = stateNext]
        m2 == [m1 EXCEPT !.StatesOnExit = Subscript(@, m1.CurrentState)]
        callbackEnter == m2.StatesOnExit[m1.CurrentState]
    IN  IF callbackEnter # NULL
        THEN Invoke(m2, callbackEnter, NoArg, "enter")
        ELSE ChangeStateAfterEnter(m2)

\* ChangeState, lines 94-103: after the exit delegate returned or was null.
ChangeStateAfterExit(m, stateNext) ==
    LET m1 == [m EXCEPT !.CurrentState = stateNext]
        m2 == [m1 EXCEPT !.StatesOnEnter = Subscript(@, m1.CurrentState)]
        callbackEnter == m2.StatesOnEnter[m1.CurrentState]
    IN  IF callbackEnter # NULL
        THEN Invoke(m2, callbackEnter, NoArg, "enter")
        ELSE ChangeStateAfterEnter(m2)

\* (mutant) line 95 moved before the exit delegate: the exit callback of the
\* old state runs with CurrentState already the new state.
ChangeStateEntry_AssignBeforeExit(m, stateNext) ==
    IF m.Owner
    THEN IF m.CurrentState # stateNext
         THEN LET m1 == [m EXCEPT !.StatesOnExit = Subscript(@, m.CurrentState)]
                  callbackExit == m1.StatesOnExit[m.CurrentState]
                  m2 == [m1 EXCEPT !.CurrentState = stateNext]
              IN  IF callbackExit # NULL
                  THEN Invoke(m2, callbackExit, NoArg, "exit")
                  ELSE ChangeStateAfterExit(m1, stateNext)
         ELSE Return(m, "StateUnchanged")
    ELSE Return(m, "NullOwner")

\* (mutant) ChangeState without the test of line 84: the transition is made
\* whether or not there is an owner.
ChangeStateEntry_NoOwnerTest(m, stateNext) ==
    IF m.CurrentState # stateNext
    THEN LET m1 == [m EXCEPT !.StatesOnExit = Subscript(@, m.CurrentState)]
             callbackExit == m1.StatesOnExit[m.CurrentState]
         IN  IF callbackExit # NULL
             THEN Invoke(m1, callbackExit, NoArg, "exit")
             ELSE ChangeStateAfterExit(m1, stateNext)
    ELSE Return(m, "StateUnchanged")

\* (mutant) ChangeState without lines 88-92: the exit delegate is never run.
ChangeStateEntry_SkipsExit(m, stateNext) ==
    IF m.Owner
    THEN IF m.CurrentState # stateNext
         THEN ChangeStateAfterExit(m, stateNext)
         ELSE Return(m, "StateUnchanged")
    ELSE Return(m, "NullOwner")

\* (mutant) the test CurrentState != stateNext made after the exit delegate
\* has run, only around lines 94-103.
ChangeStateEntry_TestAfterExit(m, stateNext) ==
    IF m.Owner
    THEN LET m1 == [m EXCEPT !.StatesOnExit = Subscript(@, m.CurrentState)]
             callbackExit == m1.StatesOnExit[m.CurrentState]
         IN  IF callbackExit # NULL
             THEN Invoke(m1, callbackExit, NoArg, "exit")
             ELSE IF m.CurrentState # stateNext
                  THEN ChangeStateAfterExit(m1, stateNext)
                  ELSE Return(m1, "StateUnchanged")
    ELSE Return(m, "NullOwner")

\* (mutant) ChangeState without the test CurrentState != stateNext.
ChangeStateEntry_NoSameStateTest(m, stateNext) ==
    IF m.Owner
    THEN LET m1 == [m EXCEPT !.StatesOnExit = Subscript(@, m.CurrentState)]
             callbackExit == m1.StatesOnExit[m.CurrentState]
         IN  IF callbackExit # NULL
             THEN Invoke(m1, callbackExit, NoArg, "exit")
             ELSE ChangeStateAfterExit(m1, stateNext)
    ELSE Return(m, "NullOwner")

\* ChangeState, lines 83-92 and the returns of lines 106 and 109.
ChangeStateEntry(m, stateNext) ==
    IF m.Owner
    THEN IF m.CurrentState # stateNext
         THEN LET m1 == [m EXCEPT !.StatesOnExit = Subscript(@, m.CurrentState)]
                  callbackExit == m1.StatesOnExit[m.CurrentState]
              IN  IF callbackExit # NULL
                  THEN Invoke(m1, callbackExit, NoArg, "exit")
                  ELSE ChangeStateAfterExit(m1, stateNext)
         ELSE Return(m, "StateUnchanged")
    ELSE Return(m, "NullOwner")

\* (mutant) Tick without the return of line 123: it falls through to line 127.
TickAfterUpdate_FallThrough(m) == Return(m, "NullOwner")

\* Tick, line 123: after the tick delegate returned.
TickAfterUpdate(m) == Return(m, "TickSuccess")

\* (mutant) Tick looking the delegate up before it tests Owner.
TickEntry_LookupBeforeOwnerTest(m, DeltaTime) ==
    LET m1 == [m EXCEPT !.StatesTick = Subscript(@, m.CurrentState)]
        callback == m1.StatesTick[m.CurrentState]
    IN  IF m.Owner /\ callback # NULL
        THEN Invoke(m1, callback, <<DeltaTime>>, "update")
        ELSE Return(m1, "NullOwner")

\* (mutant) Tick treating a missing delegate as a silent success.
TickEntry_MissingIsSuccess(m, DeltaTime) ==
    IF m.Owner
    THEN LET m1 == [m EXCEPT !.StatesTick = Subscript(@, m.CurrentState)]
             callback == m1.StatesTick[m.CurrentState]
         IN  IF callback # NULL
             THEN Invoke(m1, callback, <<DeltaTime>>, "update")
             ELSE Return(m1, "TickSuccess")
    ELSE Return(m, "NullOwner")

\* Tick, lines 117-121 and the return of line 127.
TickEntry(m, DeltaTime) ==
    IF m.Owner
    THEN LET m1 == [m EXCEPT !.StatesTick = Subscript(@, m.CurrentState)]
             callback == m1.StatesTick[m.CurrentState]
         IN  IF callback # NULL
             THEN Invoke(m1, callback, <<DeltaTime>>, "update")
             ELSE Return(m1, "NullOwner")
    ELSE Return(m, "NullOwner")

\* The segment that runs when the callback a suspended call waits for returns.
Resume(m, frame) ==
    CASE frame.pc = "exit"   -> ChangeStateAfterExit(m, frame.arg)
      [] frame.pc = "enter"  -> ChangeStateAfterEnter(m)
      [] frame.pc = "update" -> TickAfterUpdate(m)

\* ------------------------------------------------------------------- state

VARIABLES
    machine,    \* the TStateMachine object
    stack,      \* suspended ChangeState/Tick calls, innermost last, each with
                \* the callback it invoked and waits for
    nregs,      \* RegisterState calls so far
    pre,        \* the machine when the outermost call in `trace` was made
    trace,      \* the events of the current (or last) outermost call
    scen,       \* how far the caller has followed the scenario of Scenario
    twin,       \* a second machine, given the same calls
    twinTrace,  \* the events of the second machine
    settled     \* the state the driving loop last put the machine in: the
                \* constructor's, then the argument of its last ChangeState
                \* that returned StateChanged; Unsettled once a callback has
                \* called the machine

vars == <<machine, stack, nregs, pre, trace, scen, twin, twinTrace, settled>>

\* ------------------------------------------------------------------ events

\* An event: a call of a method ("call") and its return ("ret", with the
\* status), a callback's invocation ("begin") and its return ("end").  arg is
\* the tuple of the arguments (of the status, for "ret"); depth counts the
\* calls suspended under it.
Event(ev, name, arg, depth) == [ev |-> ev, name |-> name, arg |-> arg, depth |-> depth]

\* The events of a segment's end, run with `below` suspended calls under it.
OutcomeEvent(out, op, below) ==
    IF out.act = "invoke"
    THEN Event("begin", out.val, out.arg, below + 1)
    ELSE Event("ret", op, <<out.val>>, below)

\* The suspended calls after a segment's end.
OutcomeStack(out, op, arg, base) ==
    IF out.act = "invoke"
    THEN Append(base, [op |-> op, arg |-> arg, pc |-> out.pc,
                       callback |-> out.val, callbackArg |-> out.arg])
    ELSE base

\* Calls made from inside callbacks during the outermost call.
Reentries == Cardinality({i \in 2..Len(trace) : trace[i].ev = "call"})

\* No call is in progress: the next call comes from the owner's driving loop.
AtTopLevel == stack = <<>>

\* A call may be made now: by the driving loop, or by the running callback.
MayCall == AtTopLevel \/ Reentries < MaxReentry

\* The trace (of either machine) after a call whose first segment ends in `out`.
Called(tr, op, arg, out) ==
    (IF AtTopLevel THEN <<>> ELSE tr)
        \o <<Event("call", op, arg, Len(stack)), OutcomeEvent(out, op, Len(stack))>>

\* The calls of the driving loop in the scenario of the specification's
\* section 8, on a machine constructed with an owner and the state Idle.
Scenario ==
    << [name |-> "RegisterState", arg |-> <<"Idle", "onEnterIdle", "onTickIdle", "onExitIdle">>],
       [name |-> "RegisterState", arg |-> <<"Moving", "onEnterMoving", "onTickMoving", NULL>>],
       [name |-> "ChangeState", arg |-> <<"Moving">>],
       [name |-> "Tick", arg |-> <<"0.5">>],
       [name |-> "ChangeState", arg |-> <<"Moving">>],
       [name |-> "ChangeState", arg |-> <<"Idle">>] >>

\* The run has left the scenario.
OffScenario == [on |-> FALSE, step |-> 0, returned |-> <<>>, fired |-> <<>>]

\* The scenario's record after the call op(arg): it goes on when the driving
\* loop makes the scenario's next call, and ends with any other call.
Follow(op, arg) ==
    IF /\ AtTopLevel
       /\ scen.on
       /\ scen.step < Len(Scenario)
       /\ Scenario[scen.step + 1].name = op
       /\ Scenario[scen.step + 1].arg = arg
    THEN [scen EXCEPT !.step = @ + 1]
    ELSE OffScenario

\* The scenario's record with an event added: the statuses the driving loop
\* got back, and every callback invoked, in order.
Logged(sc, e) ==
    IF ~sc.on THEN sc
    ELSE IF e.ev = "begin" THEN [sc EXCEPT !.fired = Append(@, <<e.name, e.arg>>)]
    ELSE IF e.ev = "ret" /\ e.depth = 0 THEN [sc EXCEPT !.returned = Append(@, e.arg)]
    ELSE sc

\* No driving-loop record of the state: a callback has called the machine.
Unsettled == "unsettled"

\* `settled` after a call is made.
SettledCall == IF AtTopLevel THEN settled ELSE Unsettled

\* `settled` after a segment of ChangeState or Tick (called with argument arg)
\* ends in `out`, from the record s.
SettledBy(s, out, op, arg) ==
    IF /\ s # Unsettled
       /\ op = "ChangeState"
       /\ out.act = "return"
       /\ out.val = "StateChanged"
    THEN arg
    ELSE s

\* ----------------------------------------------------------------- actions

\* The constructor, with an owner or with a null owner.
Init ==
    /\ \E owner \in BOOLEAN, emptyState \in States :
           /\ machine = Construct(owner, emptyState)
           /\ settled = emptyState
    /\ twin = machine
    /\ stack = <<>>
    /\ nregs = 0
    /\ pre = machine
    /\ trace = <<>>
    /\ twinTrace = <<>>
    /\ scen = [OffScenario EXCEPT !.on = machine.Owner /\ machine.CurrentState = "Idle"]

\* The constructor of two machines, the second with RegisterState(s, null,
\* null, null) for one state s.
InitTwin ==
    /\ \E owner \in BOOLEAN, emptyState \in States :
           /\ machine = Construct(owner, emptyState)
           /\ settled = emptyState
    /\ \E s \in States : twin = RegisterStateOp(machine, s, NULL, NULL, NULL)
    /\ stack = <<>>
    /\ nregs = 0
    /\ pre = machine
    /\ trace = <<>>
    /\ twinTrace = <<>>
    /\ scen = OffScenario

RegisterState(state, callbackEntry, callbackTick, callbackExit) ==
    LET arg == <<state, callbackEntry, callbackTick, callbackExit>>
        evs == <<Event("call", "RegisterState", arg, Len(stack)),
                 Event("ret", "RegisterState", <<>>, Len(stack))>>
    IN  /\ MayCall
        /\ nregs < MaxRegs
        /\ nregs' = nregs + 1
        /\ machine' = RegisterStateOp(machine, state, callbackEntry, callbackTick, callbackExit)
        /\ twin' = RegisterStateOp(twin, state, callbackEntry, callbackTick, callbackExit)
        /\ trace' = (IF AtTopLevel THEN <<>> ELSE trace) \o evs
        /\ twinTrace' = (IF AtTopLevel THEN <<>> ELSE twinTrace) \o evs
        /\ pre' = IF AtTopLevel THEN machine ELSE pre
        /\ scen' = Logged(Follow("RegisterState", arg), evs[2])
        /\ settled' = SettledCall
        /\ UNCHANGED stack

\* A call of ChangeState, by the driving loop or by the running callback.
ChangeStateCall(stateNext) ==
    LET out == ChangeStateEntry(machine, stateNext)
        tout == ChangeStateEntry(twin, stateNext)
    IN  /\ machine' = out.m
        /\ twin' = tout.m
        /\ stack' = OutcomeStack(out, "ChangeState", stateNext, stack)
        /\ trace' = Called(trace, "ChangeState", <<stateNext>>, out)
        /\ twinTrace' = Called(twinTrace, "ChangeState", <<stateNext>>, tout)
        /\ pre' = IF AtTopLevel THEN machine ELSE pre
        /\ scen' = Logged(Follow("ChangeState", <<stateNext>>),
                           OutcomeEvent(out, "ChangeState", Len(stack)))
        /\ settled' = SettledBy(SettledCall, out, "ChangeState", stateNext)
        /\ UNCHANGED nregs

ChangeState(stateNext) == MayCall /\ ChangeStateCall(stateNext)

Tick(DeltaTime) ==
    LET out == TickEntry(machine, DeltaTime)
        tout == TickEntry(twin, DeltaTime)
    IN  /\ MayCall
        /\ machine' = out.m
        /\ twin' = tout.m
        /\ stack' = OutcomeStack(out, "Tick", DeltaTime, stack)
        /\ trace' = Called(trace, "Tick", <<DeltaTime>>, out)
        /\ twinTrace' = Called(twinTrace, "Tick", <<DeltaTime>>, tout)
        /\ pre' = IF AtTopLevel THEN machine ELSE pre
        /\ scen' = Logged(Follow("Tick", <<DeltaTime>>),
                           OutcomeEvent(out, "Tick", Len(stack)))
        /\ settled' = SettledBy(SettledCall, out, "Tick", DeltaTime)
        /\ UNCHANGED nregs

\* The running callback returns and the call that invoked it goes on.
CallbackReturn ==
    /\ stack # <<>>
    /\ LET frame == stack[Len(stack)]
           base == SubSeq(stack, 1, Len(stack) - 1)
           out == Resume(machine, frame)
           tout == Resume(twin, frame)
           end == Event("end", frame.callback, frame.callbackArg, Len(stack))
       IN  /\ machine' = out.m
           /\ twin' = tout.m
           /\ stack' = OutcomeStack(out, frame.op, frame.arg, base)
           /\ trace' = trace \o <<end, OutcomeEvent(out, frame.op, Len(base))>>
           /\ twinTrace' = twinTrace \o <<end, OutcomeEvent(tout, frame.op, Len(base))>>
           /\ scen' = Logged(scen, OutcomeEvent(out, frame.op, Len(base)))
           /\ settled' = SettledBy(settled, out, frame.op, frame.arg)
    /\ UNCHANGED <<nregs, pre>>

Next ==
    \/ \E state \in States, b \in Bindings : RegisterState(state, b[1], b[2], b[3])
    \/ \E stateNext \in States : ChangeState(stateNext)
    \/ \E DeltaTime \in DeltaTimes : Tick(DeltaTime)
    \/ CallbackReturn

Spec == Init /\ [][Next]_vars

\* Two machines set up by the driving loop and then given the same calls of
\* ChangeState and Tick, by the driving loop and by the callbacks.
NextTwin ==
    \/ \E state \in States, b \in Bindings :
           AtTopLevel /\ RegisterState(state, b[1], b[2], b[3])
    \/ \E stateNext \in States : ChangeState(stateNext)
    \/ \E DeltaTime \in DeltaTimes : Tick(DeltaTime)
    \/ CallbackReturn

SpecTwin == InitTwin /\ [][NextTwin]_vars

\* Callbacks of an owner whose on-enter functions redirect: the body of
\* onEnterIdle is ChangeState(Moving), the body of onEnterMoving is
\* ChangeState(Idle), and every other callback returns without a call.
NoCall == "none"
EnterBody(callback) ==
    CASE callback = "onEnterIdle" -> "Moving"
      [] callback = "onEnterMoving" -> "Idle"
      [] OTHER -> NoCall

\* The running callback has begun and has made no call yet.
JustBegun == stack # <<>> /\ trace[Len(trace)].ev = "begin"

\* The running callback makes the call of its body.
RedirectCall ==
    /\ JustBegun
    /\ EnterBody(stack[Len(stack)].callback) # NoCall
    /\ Len(stack) < MaxNesting
    /\ ChangeStateCall(EnterBody(stack[Len(stack)].callback))

\* The running callback returns: its body has no call, or the call is made.
RedirectReturn ==
    /\ stack # <<>>
    /\ EnterBody(stack[Len(stack)].callback) # NoCall => ~JustBegun
    /\ CallbackReturn

\* The driving loop with the redirecting callbacks.
NextLoop ==
    \/ \E state \in States, b \in Bindings :
           AtTopLevel /\ RegisterState(state, b[1], b[2], b[3])
    \/ \E stateNext \in States : AtTopLevel /\ ChangeState(stateNext)
    \/ \E DeltaTime \in DeltaTimes : AtTopLevel /\ Tick(DeltaTime)
    \/ RedirectCall
    \/ RedirectReturn

SpecLoop == Init /\ [][NextLoop]_vars

\* --------------------------------------------- vocabulary of the properties

\* The callback bound to a state in one of the three maps: a state without an
\* entry has none, like a state whose entry is null.
Bound(map, state) == IF state \in DOMAIN map THEN map[state] ELSE NULL

\* An outermost call has returned to the driving loop.
Done == AtTopLevel /\ trace # <<>>
\* The outermost call and, once it is Done, its return.
TopCall == trace[1]
TopRet == trace[Len(trace)]
\* Done, and the outermost call was this method.
DoneCall(name) == Done /\ TopCall.name = name

\* The events of invoking a callback that does not call the machine.
Fire(callback, arg, depth) ==
    IF callback = NULL
    THEN <<>>
    ELSE <<Event("begin", callback, arg, depth), Event("end", callback, arg, depth)>>

\* The callbacks the outermost call invoked itself, in order.
Invoked == SelectSeq(trace, LAMBDA e : e.ev = "begin" /\ e.depth = 1)

\* ---------------------------------------------------------------------- C1

C1_Case ==
    /\ DoneCall("ChangeState")
    /\ pre.Owner
    /\ TopCall.arg[1] # pre.CurrentState
    /\ Reentries = 0

\* C1: with the owner present and callbacks that do not re-enter, ChangeState(s)
\* from c # s returns StateChanged, leaves GetCurrentState() = s and its events
\* are exactly: the call, the on-exit bound to c (begun and ended) if any, the
\* on-enter bound to s (begun and ended) if any, the return.
C1_GenuineTransition ==
    C1_Case =>
        LET c == pre.CurrentState
            s == TopCall.arg[1]
        IN  /\ trace = <<Event("call", "ChangeState", <<s>>, 0)>>
                       \o Fire(Bound(pre.StatesOnExit, c), NoArg, 1)
                       \o Fire(Bound(pre.StatesOnEnter, s), NoArg, 1)
                       \o <<Event("ret", "ChangeState", <<"StateChanged">>, 0)>>
            /\ GetCurrentStateOp(machine) = s

\* A transition that fired an on-exit and a different on-enter.
C1_Witness ==
    /\ C1_Case
    /\ Bound(pre.StatesOnExit, pre.CurrentState) # NULL
    /\ Bound(pre.StatesOnEnter, TopCall.arg[1]) # NULL
    /\ Bound(pre.StatesOnExit, pre.CurrentState) # Bound(pre.StatesOnEnter, TopCall.arg[1])
    /\ Len(trace) = 6

\* ---------------------------------------------------------------------- C2

C2_Case ==
    /\ DoneCall("ChangeState")
    /\ pre.Owner
    /\ TopCall.arg[1] = pre.CurrentState

\* C2: with the owner present, ChangeState(s) with s the current state returns
\* StateUnchanged, invokes no callback and leaves the current state as it was.
C2_SameStateNoOp ==
    C2_Case =>
        /\ trace = <<Event("call", "ChangeState", <<pre.CurrentState>>, 0),
                     Event("ret", "ChangeState", <<"StateUnchanged">>, 0)>>
        /\ GetCurrentStateOp(machine) = pre.CurrentState

\* A same-state call on a state with all three callbacks bound.
C2_Witness ==
    /\ C2_Case
    /\ Bound(pre.StatesOnEnter, pre.CurrentState) # NULL
    /\ Bound(pre.StatesTick, pre.CurrentState) # NULL
    /\ Bound(pre.StatesOnExit, pre.CurrentState) # NULL

\* ---------------------------------------------------------------------- C3

C3_Case ==
    /\ Done
    /\ TopCall.name \in {"ChangeState", "Tick"}
    /\ ~pre.Owner

\* C3: on a machine constructed with a null owner, ChangeState and Tick return
\* NullOwner, invoke no callback and leave the whole machine (the current
\* state and the three maps) as it was.
C3_NullOwner ==
    C3_Case =>
        /\ trace = <<TopCall, Event("ret", TopCall.name, <<"NullOwner">>, 0)>>
        /\ machine = pre

\* Tick on a null-owner machine whose current state has an on-update bound.
C3_Witness ==
    /\ C3_Case
    /\ TopCall.name = "Tick"
    /\ Bound(pre.StatesTick, pre.CurrentState) # NULL

\* ---------------------------------------------------------------------- C4

C4_Case ==
    /\ DoneCall("Tick")
    /\ pre.Owner
    /\ Bound(pre.StatesTick, pre.CurrentState) # NULL

\* C4: with the owner present and an on-update bound to the current state,
\* Tick(dt) returns TickSuccess and itself invokes exactly that callback, once,
\* with dt; when the callback does not re-enter, nothing else happens and the
\* current state is unchanged.
C4_TickInvokesUpdate ==
    C4_Case =>
        LET update == Bound(pre.StatesTick, pre.CurrentState)
        IN  /\ TopRet = Event("ret", "Tick", <<"TickSuccess">>, 0)
            /\ Invoked = <<Event("begin", update, TopCall.arg, 1)>>
            /\ Reentries = 0 =>
                   /\ trace = <<TopCall>> \o Fire(update, TopCall.arg, 1) \o <<TopRet>>
                   /\ GetCurrentStateOp(machine) = pre.CurrentState

\* A Tick that ran an on-update on a state that also has on-enter and on-exit.
C4_Witness ==
    /\ C4_Case
    /\ Reentries = 0
    /\ Bound(pre.StatesOnEnter, pre.CurrentState) # NULL
    /\ Bound(pre.StatesOnExit, pre.CurrentState) # NULL

\* ---------------------------------------------------------------------- C5

\* C5: ChangeState or Tick returns NullOwner only if the owner is absent; an
\* unset on-update slot on Tick never yields NullOwner.
C5_NullOwnerOnlyWithoutOwner ==
    (/\ Done
     /\ TopCall.name \in {"ChangeState", "Tick"}
     /\ TopRet.arg = <<"NullOwner">>) => ~pre.Owner

\* ---------------------------------------------------------------------- C6

C6_Case ==
    /\ DoneCall("Tick")
    /\ pre.Owner
    /\ Bound(pre.StatesTick, pre.CurrentState) = NULL

\* C6: with the owner present and no on-update bound to the current state,
\* Tick(dt) returns NullOwner, invokes no callback and leaves the current
\* state as it was.
C6_TickWithoutUpdate ==
    C6_Case =>
        /\ trace = <<TopCall, Event("ret", "Tick", <<"NullOwner">>, 0)>>
        /\ GetCurrentStateOp(machine) = pre.CurrentState

\* Such a Tick on a state that was never registered nor looked up.
C6_Witness ==
    /\ C6_Case
    /\ pre.CurrentState \notin DOMAIN pre.StatesTick

\* ---------------------------------------------------------------------- C7

\* C7: every status Tick returns is NullOwner or TickSuccess and every status
\* ChangeState returns is NullOwner, StateChanged or StateUnchanged, for the
\* calls of the driving loop and for the calls made from inside callbacks.
C7_StatusDomains ==
    \A i \in 1..Len(trace) :
        trace[i].ev = "ret" =>
            /\ trace[i].name = "Tick" =>
                   trace[i].arg[1] \in {"NullOwner", "TickSuccess"}
            /\ trace[i].name = "ChangeState" =>
                   trace[i].arg[1] \in {"NullOwner", "StateChanged", "StateUnchanged"}

\* A ChangeState that returned StateChanged after its enter delegate had
\* called Tick.
C7_Witness ==
    /\ DoneCall("ChangeState")
    /\ TopRet.arg = <<"StateChanged">>
    /\ \E i \in 1..Len(trace) :
           /\ trace[i].ev = "ret"
           /\ trace[i].name = "Tick"
           /\ trace[i].depth = 1

\* ---------------------------------------------------------------------- C8

\* The entries of a map for the states other than `state`.
Others(map, state) == [k \in DOMAIN map \ {state} |-> map[k]]

\* C8: after RegisterState(s, e, u, x) the three entries of s are exactly e, u
\* and x, the entries of every other state are as before, the same call again
\* changes nothing, no callback was invoked, and the current state and the
\* owner are as before.
C8_RegisterLastWriteWins ==
    DoneCall("RegisterState") =>
        LET s == TopCall.arg[1]
            e == TopCall.arg[2]
            u == TopCall.arg[3]
            x == TopCall.arg[4]
        IN  /\ s \in DOMAIN machine.StatesOnEnter /\ machine.StatesOnEnter[s] = e
            /\ s \in DOMAIN machine.StatesTick /\ machine.StatesTick[s] = u
            /\ s \in DOMAIN machine.StatesOnExit /\ machine.StatesOnExit[s] = x
            /\ Others(machine.StatesOnEnter, s) = Others(pre.StatesOnEnter, s)
            /\ Others(machine.StatesTick, s) = Others(pre.StatesTick, s)
            /\ Others(machine.StatesOnExit, s) = Others(pre.StatesOnExit, s)
            /\ RegisterStateOp(machine, s, e, u, x) = machine
            /\ trace = <<TopCall, Event("ret", "RegisterState", <<>>, 0)>>
            /\ GetCurrentStateOp(machine) = pre.CurrentState
            /\ machine.Owner = pre.Owner

\* A registration with a null exit over one with an exit bound, in maps that
\* hold an entry of another state.
C8_Witness ==
    /\ DoneCall("RegisterState")
    /\ TopCall.arg[4] = NULL
    /\ TopCall.arg[2] # NULL
    /\ Bound(pre.StatesOnExit, TopCall.arg[1]) # NULL
    /\ DOMAIN pre.StatesOnEnter \ {TopCall.arg[1]} # {}

\* ---------------------------------------------------------------------- C9

\* The bindings of a machine: the callback bound to each state in each map.
Bindings3(m) ==
    [s \in States |-> <<Bound(m.StatesOnEnter, s), Bound(m.StatesTick, s),
                        Bound(m.StatesOnExit, s)>>]

\* C9: two machines that differ in that the second has RegisterState(s, null,
\* null, null) for a state the first has no registration for, and are given
\* the same calls, return the same statuses and invoke the same callbacks in
\* the same order, have the same current state and the same bindings; and a
\* call of ChangeState or Tick leaves the bindings of every state as they were.
C9_UnregisteredLikeAllNull ==
    /\ twinTrace = trace
    /\ GetCurrentStateOp(twin) = GetCurrentStateOp(machine)
    /\ Bindings3(twin) = Bindings3(machine)
    /\ (trace # <<>> /\ TopCall.name \in {"ChangeState", "Tick"}) =>
           Bindings3(machine) = Bindings3(pre)

\* A ChangeState out of a state the first machine holds no exit entry and no
\* tick entry for, and the second holds the null entries of its registration
\* for, into a state whose enter delegate was invoked.
C9_Witness ==
    /\ DoneCall("ChangeState")
    /\ TopRet.arg = <<"StateChanged">>
    /\ pre.CurrentState \notin DOMAIN pre.StatesOnExit
    /\ pre.CurrentState \notin DOMAIN machine.StatesTick
    /\ pre.CurrentState \in DOMAIN twin.StatesTick
    /\ Len(Invoked) = 1

\* --------------------------------------------------------------------- C10

\* What the scenario's calls return, in order (RegisterState returns nothing).
ScenarioReturned ==
    << <<>>, <<>>, <<"StateChanged">>, <<"TickSuccess">>, <<"StateUnchanged">>,
       <<"StateChanged">> >>
\* The callbacks the scenario invokes, in order, each with its arguments.
ScenarioFired ==
    << <<"onExitIdle", <<>>>>, <<"onEnterMoving", <<>>>>,
       <<"onTickMoving", <<"0.5">>>>, <<"onEnterIdle", <<>>>> >>
\* How many of them have been invoked after each call.
ScenarioFiredAfter == <<0, 0, 2, 3, 3, 4>>
\* The current state after each call.
ScenarioStateAfter == <<"Idle", "Idle", "Moving", "Moving", "Moving", "Idle">>

\* C10: on a machine constructed with an owner and the state Idle, after each
\* call of the scenario (Idle and Moving registered, then ChangeState(Moving),
\* Tick(0.5), ChangeState(Moving), ChangeState(Idle)), with callbacks that do
\* not call the machine: the statuses returned so far are StateChanged,
\* TickSuccess, StateUnchanged, StateChanged; the callbacks invoked so far,
\* since the construction, are onExitIdle, onEnterMoving, onTickMoving(0.5),
\* onEnterIdle; the current state is Moving after each of the first three calls
\* and Idle after the last.
C10_Scenario ==
    (scen.on /\ AtTopLevel) =>
        LET k == scen.step
        IN  /\ scen.returned = SubSeq(ScenarioReturned, 1, k)
            /\ scen.fired = SubSeq(ScenarioFired, 1, IF k = 0 THEN 0 ELSE ScenarioFiredAfter[k])
            /\ GetCurrentStateOp(machine) = IF k = 0 THEN "Idle" ELSE ScenarioStateAfter[k]

\* The scenario has been run to its end.
C10_Witness ==
    /\ scen.on
    /\ AtTopLevel
    /\ scen.step = Len(Scenario)

\* --------------------------------------------------------------------- C11

\* C11: as long as no callback has called the machine, between the calls of
\* the driving loop GetCurrentState() is the constructor's initial state until
\* the first ChangeState that returned StateChanged and the argument of the
\* last ChangeState that returned StateChanged afterwards: RegisterState, Tick
\* and ChangeState returning StateUnchanged or NullOwner leave it as it was.
C11_ChangedOnlyByTransition ==
    (AtTopLevel /\ settled # Unsettled) => GetCurrentStateOp(machine) = settled

\* After a genuine transition into a state (its enter entry was inserted by
\* the lookup of line 98, not by a registration), a ChangeState that returned
\* StateUnchanged.
C11_Witness ==
    /\ DoneCall("ChangeState")
    /\ TopRet.arg = <<"StateUnchanged">>
    /\ settled # Unsettled
    /\ settled \in DOMAIN machine.StatesOnEnter
    /\ settled \notin DOMAIN machine.StatesOnExit

\* --------------------------------------------------------------------- C12

\* The last event of a trace.
LastEvent(tr) == tr[Len(tr)]

\* The call event of the call that returns in event j of a trace: the last
\* call before it at its depth.
CallOf(tr, j) ==
    tr[CHOOSE i \in 1..(j - 1) :
           /\ tr[i].ev = "call"
           /\ tr[i].depth = tr[j].depth
           /\ \A k \in (i + 1)..(j - 1) : ~(tr[k].ev = "call" /\ tr[k].depth = tr[j].depth)]

\* A ChangeState call, of the driving loop or of a callback, has just
\* returned StateChanged.
ReturnedChanged(tr) ==
    /\ tr # <<>>
    /\ LastEvent(tr).ev = "ret"
    /\ LastEvent(tr).name = "ChangeState"
    /\ LastEvent(tr).arg = <<"StateChanged">>

\* C12 as claimed: whenever a ChangeState(s) call returns StateChanged, the
\* current state is s at the moment it returns, whatever the callbacks do.
C12_CurrentIsTargetAtReturn ==
    ReturnedChanged(trace) =>
        GetCurrentStateOp(machine) = CallOf(trace, Len(trace)).arg[1]

\* The index in the trace of the invocation of the running callback.
RunningBegin ==
    CHOOSE i \in 1..Len(trace) :
        /\ trace[i].ev = "begin"
        /\ trace[i].depth = Len(stack)
        /\ \A k \in (i + 1)..Len(trace) : ~(trace[k].ev = "begin" /\ trace[k].depth = Len(stack))

\* The running callback is an enter delegate, and a ChangeState call made
\* while it ran has returned StateChanged.
EnterRedirected ==
    /\ stack # <<>>
    /\ stack[Len(stack)].pc = "enter"
    /\ \E k \in (RunningBegin + 1)..Len(trace) :
           /\ trace[k].ev = "ret"
           /\ trace[k].name = "ChangeState"
           /\ trace[k].arg = <<"StateChanged">>

\* C12 amended: whenever a ChangeState(s) call returns StateChanged, the
\* current state is s at the moment it returns, unless a ChangeState call made
\* while its on-enter callback ran returned StateChanged; what the on-exit
\* callback does makes no difference.
C12_CurrentIsTargetUnlessRedirected ==
    [][ (/\ ReturnedChanged(trace')
         /\ ~(Len(stack') < Len(stack) /\ EnterRedirected))
        => GetCurrentStateOp(machine') = CallOf(trace', Len(trace')).arg[1] ]_vars

\* A ChangeState of the driving loop has returned StateChanged with the
\* current state its argument, after its on-exit callback made a ChangeState
\* call that returned StateChanged and its on-enter callback ran.
C12_Witness ==
    /\ DoneCall("ChangeState")
    /\ ReturnedChanged(trace)
    /\ Len(Invoked) = 2
    /\ trace[3].ev = "call"
    /\ trace[3].name = "ChangeState"
    /\ \E k \in 4..Len(trace) :
           /\ trace[k].ev = "ret"
           /\ trace[k].depth = 1
           /\ trace[k].arg = <<"StateChanged">>
    /\ GetCurrentStateOp(machine) = TopCall.arg[1]

\* --------------------------------------------------------------------- C13

\* The map a suspended call looked its callback up in.
SlotMap(m, pc) ==
    CASE pc = "exit"   -> m.StatesOnExit
      [] pc = "enter"  -> m.StatesOnEnter
      [] pc = "update" -> m.StatesTick

\* The step is a call of ChangeState(s) by the running callback.
CallsChangeState(s) ==
    /\ Len(trace') = Len(trace) + 2
    /\ trace'[Len(trace) + 1] = Event("call", "ChangeState", <<s>>, Len(stack))

\* C13: a callback is invoked as the on-enter, on-update or on-exit bound to
\* the state that is current at that moment, and when it then calls
\* ChangeState with that state, the nested call returns StateUnchanged at
\* once: no callback is invoked, no call is suspended, and the machine (the
\* current state and the maps) is as it was.
C13_SelfTransitionIsNoOp ==
    [][ (stack # <<>> /\ LastEvent(trace).ev = "begin") =>
            LET frame == stack[Len(stack)]
                s == GetCurrentStateOp(machine)
            IN  /\ frame.callback = Bound(SlotMap(machine, frame.pc), s)
                /\ CallsChangeState(s) =>
                       /\ LastEvent(trace') =
                              Event("ret", "ChangeState", <<"StateUnchanged">>, Len(stack))
                       /\ stack' = stack
                       /\ machine' = machine ]_vars

\* The on-exit callback of the current state has called ChangeState with that
\* state, got StateUnchanged and returned, and the transition it was invoked
\* in has completed.
C13_Witness ==
    /\ DoneCall("ChangeState")
    /\ Len(trace) >= 6
    /\ trace[2] = Event("begin", Bound(pre.StatesOnExit, pre.CurrentState), NoArg, 1)
    /\ trace[3] = Event("call", "ChangeState", <<pre.CurrentState>>, 1)
    /\ trace[4] = Event("ret", "ChangeState", <<"StateUnchanged">>, 1)
    /\ trace[5].ev = "end"
    /\ TopRet.arg = <<"StateChanged">>

\* --------------------------------------------------------------------- C14

\* The events of ChangeState(B) from A up to the call of ChangeState(C) by
\* the on-enter of B, with the bindings the machine had at the outermost call.
RedirectPrefix(B, C) ==
    <<Event("call", "ChangeState", <<B>>, 0)>>
        \o Fire(Bound(pre.StatesOnExit, pre.CurrentState), NoArg, 1)
        \o <<Event("begin", Bound(pre.StatesOnEnter, B), NoArg, 1),
             Event("call", "ChangeState", <<C>>, 1)>>

\* The events of the nested transition from B to C and of the two returns.
RedirectRest(B, C) ==
    Fire(Bound(pre.StatesOnExit, B), NoArg, 2)
        \o Fire(Bound(pre.StatesOnEnter, C), NoArg, 2)
        \o <<Event("ret", "ChangeState", <<"StateChanged">>, 1),
             Event("end", Bound(pre.StatesOnEnter, B), NoArg, 1),
             Event("ret", "ChangeState", <<"StateChanged">>, 0)>>

\* ChangeState(B) from A # B has completed, the on-enter of B called
\* ChangeState(C), C # B, and no callback made another call.
C14_Case(B, C) ==
    /\ DoneCall("ChangeState")
    /\ pre.Owner
    /\ B # pre.CurrentState
    /\ C # B
    /\ Bound(pre.StatesOnEnter, B) # NULL
    /\ Reentries = 1
    /\ Len(trace) >= Len(RedirectPrefix(B, C))
    /\ SubSeq(trace, 1, Len(RedirectPrefix(B, C))) = RedirectPrefix(B, C)

\* C14: when the on-enter of B calls ChangeState(C), C # B, during
\* ChangeState(B) from A, the events are: exit of A, enter of B begins, exit of
\* B, enter of C, the nested call returns StateChanged, enter of B ends, the
\* outer call returns StateChanged; and the current state is then C.
C14_RedirectFromEnter ==
    \A B, C \in States :
        C14_Case(B, C) =>
            /\ trace = RedirectPrefix(B, C) \o RedirectRest(B, C)
            /\ GetCurrentStateOp(machine) = C

\* Such a redirect in which B has an on-exit and C an on-enter.
C14_Witness ==
    \E B, C \in States :
        /\ C14_Case(B, C)
        /\ Bound(pre.StatesOnExit, B) # NULL
        /\ Bound(pre.StatesOnEnter, C) # NULL
        /\ C # pre.CurrentState

\* --------------------------------------------------------------------- C15

\* The call events of the trace, in order.
Calls == SelectSeq(trace, LAMBDA e : e.ev = "call")

\* With the owner present, the on-enter of A calls ChangeState(B), the
\* on-enter of B calls ChangeState(A), and the driving loop has called
\* ChangeState(A) from another state.
LoopStarted(A, B) ==
    /\ A # B
    /\ pre.Owner
    /\ EnterBody(Bound(pre.StatesOnEnter, A)) = B
    /\ EnterBody(Bound(pre.StatesOnEnter, B)) = A
    /\ trace # <<>>
    /\ TopCall = Event("call", "ChangeState", <<A>>, 0)
    /\ pre.CurrentState # A

\* C15: when the on-enter of A calls ChangeState(B) and the on-enter of B
\* calls ChangeState(A), a ChangeState(A) from another state does not return:
\* no call of the run returns, each call is made one level deeper than the one
\* before, the targets alternate A, B, A, ..., and the callbacks begun at level
\* k are the on-exit of the state left and the on-enter of the state entered
\* by the k-th call.
C15_LoopNeverReturns ==
    \A A, B \in States :
        LoopStarted(A, B) =>
            LET target(k) == IF k % 2 = 1 THEN A ELSE B
                source(k) == IF k = 1 THEN pre.CurrentState ELSE target(k - 1)
            IN  /\ ~AtTopLevel
                /\ \A i \in 1..Len(trace) : trace[i].ev # "ret"
                /\ Len(stack) = Len(Calls)
                /\ \A k \in 1..Len(Calls) :
                       Calls[k] = Event("call", "ChangeState", <<target(k)>>, k - 1)
                /\ \A i \in 1..Len(trace) :
                       trace[i].ev = "begin" =>
                           trace[i].name \in
                               {Bound(pre.StatesOnExit, source(trace[i].depth)),
                                Bound(pre.StatesOnEnter, target(trace[i].depth))}
                /\ GetCurrentStateOp(machine) \in
                       {source(Len(stack)), target(Len(stack))}

\* The loop has been followed to the depth MaxNesting.
C15_Witness ==
    \E A, B \in States :
        /\ LoopStarted(A, B)
        /\ Len(stack) = MaxNesting
        /\ trace[Len(trace)].ev = "begin"
        /\ trace[Len(trace)].name = Bound(pre.StatesOnEnter, IF MaxNesting % 2 = 1 THEN A ELSE B)

\* --------------------------------------------------------------------- C16

\* A step in which a ChangeState call begins a callback; Running is the
\* suspended call and the callback it waits for.
BeginsCallback ==
    /\ stack' # <<>>
    /\ Len(trace') > Len(trace) \/ AtTopLevel
    /\ LastEvent(trace').ev = "begin"
    /\ stack'[Len(stack')].op = "ChangeState"

\* C16: in ChangeState(s) from c # s, when the on-exit callback of c begins
\* GetCurrentState() is still c, and when the on-enter callback of s begins
\* GetCurrentState() is already s.
C16_SwitchedBetweenCallbacks ==
    [][ BeginsCallback =>
            LET Running == stack'[Len(stack')]
                c == GetCurrentStateOp(machine)
                s == Running.arg
            IN  /\ Running.pc \in {"exit", "enter"}
                /\ Running.pc = "exit" =>
                       /\ c # s
                       /\ Running.callback = Bound(machine'.StatesOnExit, c)
                       /\ GetCurrentStateOp(machine') = c
                /\ Running.pc = "enter" =>
                       /\ Running.callback = Bound(machine'.StatesOnEnter, s)
                       /\ GetCurrentStateOp(machine') = s ]_vars

\* The on-enter of s has begun after the on-exit of c # s has run.
C16_Witness ==
    /\ stack # <<>>
    /\ Len(trace) = 4
    /\ TopCall.name = "ChangeState"
    /\ trace[2] = Event("begin", Bound(pre.StatesOnExit, pre.CurrentState), NoArg, 1)
    /\ trace[3].ev = "end"
    /\ trace[4] = Event("begin", Bound(pre.StatesOnEnter, TopCall.arg[1]), NoArg, 1)
    /\ stack[1].pc = "enter"
    /\ GetCurrentStateOp(machine) = TopCall.arg[1]
    /\ GetCurrentStateOp(machine) # pre.CurrentState

\* --------------------------------------------------------------------- C17

\* The event that began the callback now running.
BeganRunning ==
    CHOOSE j \in 1..Len(trace) :
        /\ trace[j].ev = "begin"
        /\ trace[j].depth = Len(stack)
        /\ \A k \in (j + 1)..Len(trace) :
               ~(trace[k].ev = "begin" /\ trace[k].depth = Len(stack))

\* The running callback is the on-exit `callback`, it returns in this step,
\* and no ChangeState call made while it ran changed the state.
ExitJustRan(callback) ==
    /\ ~AtTopLevel
    /\ stack[Len(stack)].pc = "exit"
    /\ stack[Len(stack)].callback = callback
    /\ Len(trace') > Len(trace)
    /\ trace'[Len(trace) + 1] = Event("end", callback, NoArg, Len(stack))
    /\ \A k \in BeganRunning..Len(trace) :
           trace[k] # Event("ret", "ChangeState", <<"StateChanged">>, Len(stack))

\* C17: every change of CurrentState from a to b # a comes right after one
\* invocation of the on-exit bound to a (if one is bound), made for leaving a,
\* and is followed at once by the invocation of the on-enter bound to b (if
\* one is bound).
C17_ExitEnterPairing ==
    [][ GetCurrentStateOp(machine') # GetCurrentStateOp(machine) =>
            LET a == GetCurrentStateOp(machine)
                b == GetCurrentStateOp(machine')
                callbackExit == Bound(machine.StatesOnExit, a)
                callbackEnter == Bound(machine'.StatesOnEnter, b)
            IN  /\ callbackExit # NULL => ExitJustRan(callbackExit)
                /\ callbackEnter # NULL =>
                       LastEvent(trace') = Event("begin", callbackEnter, NoArg, Len(stack')) ]_vars

\* --------------------------------------------------------------------- C18

\* The machine after the RegisterState call recorded in a call event.
Registered(m, e) == RegisterStateOp(m, e.arg[1], e.arg[2], e.arg[3], e.arg[4])

\* ChangeState(s) from c # s has completed, and the on-exit callback of c
\* made one call, a RegisterState; no other callback called the machine.
C18_Case ==
    /\ DoneCall("ChangeState")
    /\ pre.Owner
    /\ TopCall.arg[1] # pre.CurrentState
    /\ Bound(pre.StatesOnExit, pre.CurrentState) # NULL
    /\ Reentries = 1
    /\ trace[3].ev = "call"
    /\ trace[3].name = "RegisterState"

\* C18: when the on-exit callback of the old state c calls RegisterState
\* during ChangeState(s), the on-enter fired by that transition is the one
\* bound to s after that registration (none if it is null); and the on-exit
\* of c, whatever is registered, is begun once, ends, and the call returns
\* StateChanged with GetCurrentState() = s.
C18_BindingsLookedUpAtEachStep ==
    C18_Case =>
        LET s == TopCall.arg[1]
            callbackExit == Bound(pre.StatesOnExit, pre.CurrentState)
            callbackEnter == Bound(Registered(pre, trace[3]).StatesOnEnter, s)
        IN  /\ trace = <<Event("call", "ChangeState", <<s>>, 0),
                         Event("begin", callbackExit, NoArg, 1),
                         Event("call", "RegisterState", trace[3].arg, 1),
                         Event("ret", "RegisterState", <<>>, 1),
                         Event("end", callbackExit, NoArg, 1)>>
                        \o Fire(callbackEnter, NoArg, 1)
                        \o <<Event("ret", "ChangeState", <<"StateChanged">>, 0)>>
            /\ GetCurrentStateOp(machine) = s
            /\ Bound(machine.StatesOnEnter, s) = callbackEnter

\* The on-exit registered an on-enter for the target, which had none when
\* ChangeState was called, and that on-enter was fired.
C18_Witness ==
    /\ C18_Case
    /\ trace[3].arg[1] = TopCall.arg[1]
    /\ trace[3].arg[2] # NULL
    /\ Bound(pre.StatesOnEnter, TopCall.arg[1]) = NULL
    /\ Len(trace) = 8
    /\ trace[6].ev = "begin"
    /\ trace[6].name = trace[3].arg[2]

\* The on-exit re-registered its own state without an on-exit, and the exit
\* in progress ended as usual.
C18_WitnessOldState ==
    /\ C18_Case
    /\ trace[3].arg[1] = pre.CurrentState
    /\ trace[3].arg[4] = NULL
    /\ trace[5].ev = "end"
    /\ Bound(machine.StatesOnExit, pre.CurrentState) = NULL

\* --------------------------------------------------------------------- C19

\* The statuses returned so far by the calls of a method in the trace.
Returned(tr, name) ==
    {tr[i].arg[1] : i \in {j \in 1..Len(tr) : tr[j].ev = "ret" /\ tr[j].name = name}}

\* C19: no step changes whether the machine has an owner; with an owner no
\* ChangeState call returns NullOwner; without one every ChangeState and
\* every Tick call returns NullOwner and no callback is begun.
C19_OwnerFixed ==
    [][ /\ machine'.Owner = machine.Owner
        /\ machine'.Owner => "NullOwner" \notin Returned(trace', "ChangeState")
        /\ ~machine'.Owner =>
               /\ Returned(trace', "ChangeState") \subseteq {"NullOwner"}
               /\ Returned(trace', "Tick") \subseteq {"NullOwner"}
               /\ \A i \in 1..Len(trace') : trace'[i].ev # "begin"
               /\ AtTopLevel' ]_vars

\* Without an owner, a Tick in a state with an on-update bound has returned
\* NullOwner, the callback not begun.
C19_Witness ==
    /\ DoneCall("Tick")
    /\ ~machine.Owner
    /\ ~pre.Owner
    /\ Bound(pre.StatesTick, pre.CurrentState) # NULL
    /\ trace = <<TopCall, Event("ret", "Tick", <<"NullOwner">>, 0)>>

====
